---- MODULE Spec2Model ----
(***************************************************************************)
(* A model of mvines/vv.                                                   *)
(*                                                                         *)
(*   live mode        src/src/main.rs  process_votes: the select loop over *)
(*                    the slot and vote notification streams and the       *)
(*                    maintenance pass that follows every notification.    *)
(*   historical mode  src/src/vv.rs    process_view_votes: the histogram,  *)
(*                    the greedy packing of the landing table, the         *)
(*                    post-processing and the confirmation pass; and the   *)
(*                    Display of a TableEntry.                             *)
(*                                                                         *)
(* Every handler of the live loop is one action: the notification and the  *)
(* whole maintenance pass that the loop body runs before it waits again.   *)
(***************************************************************************)
EXTENDS Integers, Sequences, FiniteSets, TLC

VARIABLES
    \* ---- live mode (main.rs, process_votes) ----
    votes_by_slot,   \* HashMap<Slot, Vec<(Pubkey, Vote)>>
    slot_parents,    \* HashMap<child Slot, parent Slot>
    vote_states,     \* HashMap<Pubkey, VoteState> (the lockout stack of each)
    status,          \* "running" | "locked_out" | "parse_error" | "ended"
    votes_ended,     \* rpc_votes.next() has returned None
    slots_ended,     \* slots.next() has returned None
    unsubscribed,    \* slot_unsubscribe() and votes_unsubscribe() have run
    last_event,      \* the notification the last loop iteration handled
    last_pass,       \* what the maintenance pass of that iteration did
    inserted,        \* every child slot ever given to slot_parents.insert
    reinserted,      \* some child slot was given to slot_parents.insert twice
    n_votes_seen,    \* number of vote notifications delivered so far
    \* ---- historical mode (vv.rs, process_view_votes) ----
    tpc,             \* position in process_view_votes
    limit,           \* the number of transactions to process
    tip,             \* the highest slot of the chain when they are fetched
    vote_metas,      \* Vec<VoteMeta>
    slot_vote_count, \* HashMap<Slot, usize>
    table,           \* BTreeMap<Slot, Vec<Option<TableEntry>>>
    next_meta,       \* index of the next VoteMeta the packing loop takes
    placed,          \* for every VoteMeta placed so far, its depth
    max_last_vote_slot,
    failed_vote_count,
    confirmed_slots, \* the answer of get_blocks(start_slot, end_slot)
    report,          \* the lines printed by the confirmation pass
    miss_count,
    \* ---- Display of a TableEntry (vv.rs) ----
    entry,           \* the TableEntry to render
    rendered         \* the characters written, <<>> before rendering

liveVars == <<votes_by_slot, slot_parents, vote_states, status, votes_ended,
              slots_ended, unsubscribed, last_event, last_pass, inserted,
              reinserted,              n_votes_seen>>
tableVars == <<tpc, limit, tip, vote_metas, slot_vote_count, table, next_meta, placed,
               max_last_vote_slot, failed_vote_count, confirmed_slots, report,
               miss_count>>
renderVars == <<entry, rendered>>
vars == <<liveVars, tableVars, renderVars>>

----------------------------------------------------------------------------
(* Bounds of the model.                                                    *)

\* Slot notifications are about the slots 1..MaxSlot; 0 occurs as a parent
\* only.  Votes are on the slots 1..MaxVotedSlot.
MaxSlot == 4
MaxVotedSlot == 3
\* Validator identities are 1..NumIdentities.
NumIdentities == 2
\* A vote notification carries at most MaxVoteSlots slots.
MaxVoteSlots == 2
\* At most MaxVoteNotifications vote notifications are delivered.
MaxVoteNotifications == 3

\* main.rs:104 evicts while slot_parents.len() >= 1_000.  The model keeps the
\* comparison and scales the number, so that the eviction loop runs within
\* the slots above.
SLOT_PARENTS_CAP == 3

Slots == 1..MaxSlot
VotedSlots == 1..MaxVotedSlot
Identities == 1..NumIdentities

----------------------------------------------------------------------------
(* Helpers: maps as functions, minimum and maximum, sorted sequences.      *)

EmptyMap == <<>>

MapPut(m, k, v) == [x \in (DOMAIN m) \cup {k} |-> IF x = k THEN v ELSE m[x]]

MapRemove(m, k) == [x \in (DOMAIN m) \ {k} |-> m[x]]

MapRetain(m, keep) == [x \in (DOMAIN m) \cap keep |-> m[x]]

Min(S) == CHOOSE x \in S : \A y \in S : x <= y

Max(S) == CHOOSE x \in S : \A y \in S : x >= y

Last(s) == s[Len(s)]

RECURSIVE SortedSeq(_)
\* The elements of a set of integers, ascending.
SortedSeq(S) == IF S = {} THEN <<>> ELSE <<Min(S)>> \o SortedSeq(S \ {Min(S)})

Range(s) == {s[i] : i \in DOMAIN s}

RECURSIVE Pow2(_)
Pow2(n) == IF n = 0 THEN 1 ELSE 2 * Pow2(n - 1)

----------------------------------------------------------------------------
(* The vote tower (solana_vote_program::vote_state::VoteState), as far as  *)
(* main.rs uses it: the lockout stack `votes`, last_voted_slot,            *)
(* process_slot_vote_unchecked and process_vote_unchecked.  A tower is the *)
(* sequence of its lockouts, oldest first.                                 *)

MAX_LOCKOUT_HISTORY == 31

NewLockout(slot) == [slot |-> slot, confirmation_count |-> 1]

\* Lockout::is_locked_out_at_slot: slot + 2^confirmation_count >= s
IsLockedOutAtSlot(l, s) == l.slot + Pow2(l.confirmation_count) >= s

RECURSIVE pop_expired_votes(_, _)
pop_expired_votes(tower, next_vote_slot) ==
    IF tower # <<>> /\ ~IsLockedOutAtSlot(Last(tower), next_vote_slot)
    THEN pop_expired_votes(SubSeq(tower, 1, Len(tower) - 1), next_vote_slot)
    ELSE tower

double_lockouts(tower) ==
    [i \in DOMAIN tower |->
        IF Len(tower) > (i - 1) + tower[i].confirmation_count
        THEN [tower[i] EXCEPT !.confirmation_count = @ + 1]
        ELSE tower[i]]

HasLastVotedSlot(tower) == tower # <<>>

last_voted_slot(tower) == Last(tower).slot

process_next_vote_slot(tower, next_vote_slot) ==
    IF HasLastVotedSlot(tower) /\ next_vote_slot <= last_voted_slot(tower)
    THEN tower
    ELSE LET popped == pop_expired_votes(tower, next_vote_slot)
             rooted == IF Len(popped) = MAX_LOCKOUT_HISTORY
                       THEN Tail(popped) ELSE popped
         IN double_lockouts(Append(rooted, NewLockout(next_vote_slot)))

process_slot_vote_unchecked(tower, slot) == process_next_vote_slot(tower, slot)

RECURSIVE process_vote_unchecked(_, _)
process_vote_unchecked(tower, slots) ==
    IF slots = <<>> THEN tower
    ELSE process_vote_unchecked(process_next_vote_slot(tower, Head(slots)),
                                Tail(slots))

TowerSlots(tower) == {tower[i].slot : i \in DOMAIN tower}

----------------------------------------------------------------------------
(* main.rs: is_recent, is_locked_out, build_ancestors.                     *)

is_recent_unless_unvoted(tower, slot) ==
    HasLastVotedSlot(tower) /\ slot > last_voted_slot(tower)

is_recent_strict(tower, slot) ==
    ~(HasLastVotedSlot(tower) /\ slot < last_voted_slot(tower))

is_recent(tower, slot) ==
    ~(HasLastVotedSlot(tower) /\ slot <= last_voted_slot(tower))

is_locked_out_counting_target(tower, slot, ancestors) ==
    LET simulated == process_slot_vote_unchecked(tower, slot)
    IN \E i \in DOMAIN simulated : simulated[i].slot \notin ancestors

is_locked_out(tower, slot, ancestors) ==
    LET simulated == process_slot_vote_unchecked(tower, slot)
    IN \E i \in DOMAIN simulated :
          slot # simulated[i].slot /\ simulated[i].slot \notin ancestors

RECURSIVE AncestorWalk(_, _, _, _)
\* The while-let loop of build_ancestors.  `visited` holds the slots the loop
\* variable has held; coming back to one of them is the only way the loop of
\* the source fails to end, and the walk of the model stops there.
AncestorWalk(slot, parents, ancestors, visited) ==
    IF slot \notin DOMAIN parents \/ slot \in visited
    THEN ancestors
    ELSE AncestorWalk(parents[slot], parents, ancestors \cup {parents[slot]},
                      visited \cup {slot})

build_parent_only(slot, parents) ==
    IF slot \in DOMAIN parents THEN {parents[slot]} ELSE {}

build_ancestors(slot, parents) == AncestorWalk(slot, parents, {}, {})

AncestorWalkStays(slot, parents, visited) == slot \notin DOMAIN parents

RECURSIVE AncestorWalkEnds(_, _, _)
AncestorWalkEnds(slot, parents, visited) ==
    IF slot \notin DOMAIN parents THEN TRUE
    ELSE IF slot \in visited THEN FALSE
    ELSE AncestorWalkEnds(parents[slot], parents, visited \cup {slot})

build_ancestors_terminates(slot, parents) == AncestorWalkEnds(slot, parents, {})

----------------------------------------------------------------------------
(* main.rs, process_votes: the maintenance pass.                           *)

RECURSIVE EvictLoop(_, _)
EvictLoop(parents, cap) ==
    IF Cardinality(DOMAIN parents) < cap
    THEN parents
    ELSE EvictLoop(MapRemove(parents, Min(DOMAIN parents)), cap)

EvictOffByTwo(parents) == EvictLoop(parents, SLOT_PARENTS_CAP + 2)

\* lines 102-108: remove the lowest key until len() < 1_000
Evict(parents) == EvictLoop(parents, SLOT_PARENTS_CAP)

\* line 109: votes_by_slot.retain(|slot, _| *slot >= lowest_slot)
RetainBuckets(buckets, lowest_slot) ==
    MapRetain(buckets, {s \in DOMAIN buckets : s >= lowest_slot})

SlotsToProcessDescending(buckets, highest_slot) ==
    LET sorted == SortedSeq({s \in DOMAIN buckets : s <= highest_slot})
    IN [i \in DOMAIN sorted |-> sorted[Len(sorted) + 1 - i]]

\* lines 113-118: the bucket keys <= highest_slot, sorted
SlotsToProcess(buckets, highest_slot) ==
    SortedSeq({s \in DOMAIN buckets : s <= highest_slot})

PassEvent(v, outcome, before, after, ancestors) ==
    [pubkey |-> v.pubkey, slots |-> v.slots, outcome |-> outcome,
     before |-> before, after |-> after, ancestors |-> ancestors]

ProcessVoteWithoutClone(st, parents, v) ==
    IF st.panicked THEN st
    ELSE
    LET states == IF v.pubkey \in DOMAIN st.vote_states
                  THEN st.vote_states
                  ELSE MapPut(st.vote_states, v.pubkey, <<>>)
        tower == states[v.pubkey]
        highest_vote_slot == Last(v.slots)
        ancestors == build_ancestors(highest_vote_slot, parents)
        simulated == process_slot_vote_unchecked(tower, highest_vote_slot)
        applied == process_vote_unchecked(tower, v.slots)
    IN IF tower # <<>> /\ Min(TowerSlots(tower)) \notin DOMAIN parents
       THEN [st EXCEPT !.vote_states = states,
                       !.events = Append(@, PassEvent(v, "skip_tower", tower, tower, {}))]
       ELSE IF v.slots[1] \notin DOMAIN parents
       THEN [st EXCEPT !.vote_states = states,
                       !.events = Append(@, PassEvent(v, "skip_vote", tower, tower, {}))]
       ELSE IF ~is_recent(tower, highest_vote_slot)
       THEN [st EXCEPT !.vote_states = states,
                       !.events = Append(@, PassEvent(v, "stale", tower, tower, {}))]
       ELSE IF is_locked_out(tower, highest_vote_slot, ancestors)
       THEN [st EXCEPT !.vote_states = MapPut(states, v.pubkey, simulated),
                       !.panicked = TRUE,
                       !.events = Append(@, PassEvent(v, "locked_out", tower, tower, ancestors))]
       ELSE [st EXCEPT !.vote_states = MapPut(states, v.pubkey, applied),
                       !.events = Append(@, PassEvent(v, "applied", tower, applied, ancestors))]

\* lines 141-182: one (vote_pubkey, vote) of a bucket.  st is the state of the
\* pass: the towers, the events so far, and whether the pass has panicked.
ProcessVote(st, parents, v) ==
    IF st.panicked THEN st
    ELSE
    LET states == IF v.pubkey \in DOMAIN st.vote_states
                  THEN st.vote_states
                  ELSE MapPut(st.vote_states, v.pubkey, <<>>)
        tower == states[v.pubkey]
        highest_vote_slot == Last(v.slots)
        ancestors == build_ancestors(highest_vote_slot, parents)
        applied == process_vote_unchecked(tower, v.slots)
    IN IF tower # <<>> /\ Min(TowerSlots(tower)) \notin DOMAIN parents
       THEN [st EXCEPT !.vote_states = states,
                       !.events = Append(@, PassEvent(v, "skip_tower", tower, tower, {}))]
       ELSE IF v.slots[1] \notin DOMAIN parents
       THEN [st EXCEPT !.vote_states = states,
                       !.events = Append(@, PassEvent(v, "skip_vote", tower, tower, {}))]
       ELSE IF ~is_recent(tower, highest_vote_slot)
       THEN [st EXCEPT !.vote_states = states,
                       !.events = Append(@, PassEvent(v, "stale", tower, tower, {}))]
       ELSE IF is_locked_out(tower, highest_vote_slot, ancestors)
       THEN [st EXCEPT !.vote_states = states,
                       !.panicked = TRUE,
                       !.events = Append(@, PassEvent(v, "locked_out", tower, tower, ancestors))]
       ELSE [st EXCEPT !.vote_states = MapPut(states, v.pubkey, applied),
                       !.events = Append(@, PassEvent(v, "applied", tower, applied, ancestors))]

RECURSIVE ProcessBucket(_, _, _)
\* line 140: for (vote_pubkey, vote) in votes
ProcessBucket(st, parents, votes) ==
    IF votes = <<>> THEN st
    ELSE ProcessBucket(ProcessVote(st, parents, Head(votes)), parents, Tail(votes))

PeekBucket(st, slot) == st

\* line 125: votes_by_slot.remove(&slot)
TakeBucket(st, slot) == [st EXCEPT !.buckets = MapRemove(@, slot)]

RECURSIVE ProcessSlots(_, _, _)
\* lines 124-184: for slot in slots
ProcessSlots(st, parents, slots) ==
    IF slots = <<>> \/ st.panicked THEN st
    ELSE LET slot == Head(slots)
             votes == st.buckets[slot]
             taken == TakeBucket(st, slot)
         IN ProcessSlots(ProcessBucket([taken EXCEPT !.order = Append(@, slot)],
                                       parents, votes),
                         parents, Tail(slots))

\* lines 98-184: the part of the loop body after the select!
MaintenancePass(parents, buckets, states) ==
    IF DOMAIN parents = {}
    THEN [ran |-> FALSE, slot_parents |-> parents, buckets |-> buckets,
          vote_states |-> states, events |-> <<>>, order |-> <<>>,
          dropped |-> {}, panicked |-> FALSE]
    ELSE LET evicted == Evict(parents)
             lowest_slot == Min(DOMAIN evicted)
             retained == RetainBuckets(buckets, lowest_slot)
             highest_slot == Max(DOMAIN evicted)
             slots == SlotsToProcess(retained, highest_slot)
             st == ProcessSlots([buckets |-> retained, vote_states |-> states,
                                 events |-> <<>>, order |-> <<>>,
                                 panicked |-> FALSE],
                                evicted, slots)
         IN [ran |-> TRUE, slot_parents |-> evicted, buckets |-> st.buckets,
             vote_states |-> st.vote_states, events |-> st.events,
             order |-> st.order,
             dropped |-> (DOMAIN buckets) \ (DOMAIN retained),
             panicked |-> st.panicked]

----------------------------------------------------------------------------
(* main.rs, process_votes: the state after construction and the handlers.  *)

\* The slot lists a vote notification may carry: ascending, non-empty.
VoteSlotLists ==
    {SortedSeq(S) : S \in {T \in SUBSET VotedSlots :
                              Cardinality(T) >= 1 /\ Cardinality(T) <= MaxVoteSlots}}

NoPass == [ran |-> FALSE, events |-> <<>>, order |-> <<>>, dropped |-> {}]

PassRecord(pass) == [ran |-> pass.ran, events |-> pass.events,
                     order |-> pass.order, dropped |-> pass.dropped]

NoEvent == [kind |-> "none", empty |-> FALSE, parsable |-> TRUE]

TableIdle ==
    /\ tpc = "idle"
    /\ limit = 0
    /\ tip = 0
    /\ vote_metas = <<>>
    /\ slot_vote_count = EmptyMap
    /\ table = EmptyMap
    /\ next_meta = 1
    /\ placed = EmptyMap
    /\ max_last_vote_slot = 0
    /\ failed_vote_count = 0
    /\ confirmed_slots = {}
    /\ report = <<>>
    /\ miss_count = 0

RenderIdle ==
    /\ entry = [kind |-> "Space", success |-> FALSE, signature |-> <<>>]
    /\ rendered = <<>>

LiveInit ==
    /\ votes_by_slot = EmptyMap
    /\ slot_parents = EmptyMap
    /\ vote_states = EmptyMap
    /\ status = "running"
    /\ votes_ended = FALSE
    /\ slots_ended = FALSE
    /\ unsubscribed = FALSE
    /\ last_event = NoEvent
    /\ last_pass = NoPass
    /\ inserted = {}
    /\ reinserted = FALSE
    /\ n_votes_seen = 0

Init == LiveInit /\ TableIdle /\ RenderIdle

\* The state the loop body leaves: either the pass ran to its end, or it
\* panicked inside is_locked_out's caller (line 170).
FinishIteration(pass) ==
    /\ slot_parents' = pass.slot_parents
    /\ votes_by_slot' = pass.buckets
    /\ vote_states' = pass.vote_states
    /\ last_pass' = PassRecord(pass)
    /\ status' = IF pass.panicked THEN "locked_out" ELSE "running"

\* lines 76-89, then 98-184
VoteNotification ==
    /\ status = "running"
    /\ ~votes_ended
    /\ n_votes_seen < MaxVoteNotifications
    /\ \E pubkey \in Identities, slots \in VoteSlotLists \cup {<<>>},
          parsable \in BOOLEAN :
          /\ n_votes_seen' = n_votes_seen + 1
          /\ last_event' = [kind |-> "vote", empty |-> (slots = <<>>), parsable |-> parsable]
          /\ IF slots # <<>> /\ ~parsable
             THEN \* .parse::<Pubkey>().unwrap() or .parse::<Hash>().unwrap()
                  /\ status' = "parse_error"
                  /\ last_pass' = NoPass
                  /\ UNCHANGED <<votes_by_slot, slot_parents, vote_states>>
             ELSE LET key == Last(slots)
                      v == [pubkey |-> pubkey, slots |-> slots]
                      buckets ==
                          IF slots = <<>> THEN votes_by_slot
                          ELSE IF key \in DOMAIN votes_by_slot
                          THEN [votes_by_slot EXCEPT ![key] = Append(@, v)]
                          ELSE MapPut(votes_by_slot, key, <<v>>)
                  IN FinishIteration(MaintenancePass(slot_parents, buckets, vote_states))
    /\ UNCHANGED <<votes_ended, slots_ended, unsubscribed, inserted, reinserted>>
    /\ UNCHANGED <<tableVars, renderVars>>

\* lines 91-94, then 98-184
SlotNotification ==
    /\ status = "running"
    /\ ~slots_ended
    /\ \E slot \in Slots : \E parent \in 0..(slot - 1) :
          /\ last_event' = [kind |-> "slot", empty |-> FALSE, parsable |-> TRUE]
          /\ inserted' = inserted \cup {slot}
          /\ reinserted' = (reinserted \/ slot \in inserted)
          /\ FinishIteration(MaintenancePass(MapPut(slot_parents, slot, parent),
                                             votes_by_slot, vote_states))
    /\ UNCHANGED <<votes_ended, slots_ended, unsubscribed, n_votes_seen>>
    /\ UNCHANGED <<tableVars, renderVars>>

\* rpc_votes.next() returns None: the branch of the select! is disabled
VotesEnd ==
    /\ status = "running"
    /\ ~votes_ended
    /\ votes_ended' = TRUE
    /\ last_event' = [kind |-> "votes_end", empty |-> FALSE, parsable |-> TRUE]
    /\ last_pass' = NoPass
    /\ UNCHANGED <<votes_by_slot, slot_parents, vote_states, status, slots_ended,
                   unsubscribed, inserted, reinserted, n_votes_seen>>
    /\ UNCHANGED <<tableVars, renderVars>>

\* slots.next() returns None
SlotsEnd ==
    /\ status = "running"
    /\ ~slots_ended
    /\ slots_ended' = TRUE
    /\ last_event' = [kind |-> "slots_end", empty |-> FALSE, parsable |-> TRUE]
    /\ last_pass' = NoPass
    /\ UNCHANGED <<votes_by_slot, slot_parents, vote_states, status, votes_ended,
                   unsubscribed, inserted, reinserted, n_votes_seen>>
    /\ UNCHANGED <<tableVars, renderVars>>

BreakOnEitherEnd ==
    /\ status = "running"
    /\ votes_ended \/ slots_ended
    /\ status' = "ended"
    /\ unsubscribed' = TRUE
    /\ last_event' = [kind |-> "break", empty |-> FALSE, parsable |-> TRUE]
    /\ last_pass' = NoPass
    /\ UNCHANGED <<votes_by_slot, slot_parents, vote_states, votes_ended,
                   slots_ended, inserted, reinserted, n_votes_seen>>
    /\ UNCHANGED <<tableVars, renderVars>>

\* line 95 (else => break), then lines 187-189
Break ==
    /\ status = "running"
    /\ votes_ended /\ slots_ended
    /\ status' = "ended"
    /\ unsubscribed' = TRUE
    /\ last_event' = [kind |-> "break", empty |-> FALSE, parsable |-> TRUE]
    /\ last_pass' = NoPass
    /\ UNCHANGED <<votes_by_slot, slot_parents, vote_states, votes_ended,
                   slots_ended, inserted, reinserted, n_votes_seen>>
    /\ UNCHANGED <<tableVars, renderVars>>

\* The loop while both streams deliver.
Next == VoteNotification \/ SlotNotification

Spec == Init /\ [][Next]_vars

\* The loop with the ends of the two streams.
NextStreams == VoteNotification \/ SlotNotification \/ VotesEnd \/ SlotsEnd \/ Break

SpecStreams == Init /\ [][NextStreams]_vars

\* The chain without forks: the parent of a slot is the slot before it.
TrueParent(slot) == slot - 1

\* lines 91-94, then 98-184, for a slot notification of the chain without
\* forks; the notifications still arrive in any order and more than once.
ChainSlotNotification ==
    /\ status = "running"
    /\ ~slots_ended
    /\ \E slot \in Slots :
          /\ last_event' = [kind |-> "slot", empty |-> FALSE, parsable |-> TRUE]
          /\ inserted' = inserted \cup {slot}
          /\ reinserted' = (reinserted \/ slot \in inserted)
          /\ FinishIteration(MaintenancePass(MapPut(slot_parents, slot, TrueParent(slot)),
                                             votes_by_slot, vote_states))
    /\ UNCHANGED <<votes_ended, slots_ended, unsubscribed, n_votes_seen>>
    /\ UNCHANGED <<tableVars, renderVars>>

\* The loop fed by a chain without forks.
NextChain == VoteNotification \/ ChainSlotNotification

SpecChain == Init /\ [][NextChain]_vars

----------------------------------------------------------------------------
(* vv.rs, process_view_votes: the landing table.                           *)

\* The historical mode sees the slots FirstTableSlot..tip and a transaction
\* votes on at most MaxMetaVoteSlots of them.  Where the packing alone is
\* followed (SpecPacking) the limit of transactions is MaxMetas and the tip is
\* LastTableSlot; where the whole of process_view_votes is (SpecTable) they
\* are MaxMetasConfirmed and LastTableSlotConfirmed, which leaves room for two
\* ranges with an untouched slot between them.
FirstTableSlot == 10
LastTableSlot == 14
LastTableSlotConfirmed == 15
MaxMetaVoteSlots == 2
MaxMetas == 3
MaxMetasConfirmed == 2

TableSlots(last_slot) == FirstTableSlot..last_slot

\* The sorted slot lists of a vote transaction (lines 179-180).
MetaVoteSlotLists(last_slot) ==
    {SortedSeq(S) : S \in {T \in SUBSET TableSlots(last_slot) :
                              Cardinality(T) >= 1 /\ Cardinality(T) <= MaxMetaVoteSlots}}

\* first_vote_slot..=landed_slot + 1
SpanSlots(vm) == (vm.vote_slots[1])..(vm.landed_slot + 1)

SpanShort(vm) == (vm.vote_slots[1])..(vm.landed_slot)

\* lines 182-187: the slots one vote transaction adds to the histogram
HistogramSlots(vm) == SpanSlots(vm)

\* lines 182-187
CountSpan(counts, vm) ==
    [s \in (DOMAIN counts) \cup HistogramSlots(vm) |->
        (IF s \in DOMAIN counts THEN counts[s] ELSE 0)
        + (IF s \in HistogramSlots(vm) THEN 1 ELSE 0)]

\* line 199: slot_vote_count.values().max().unwrap()
slot_vote_max_depth == Max({slot_vote_count[s] : s \in DOMAIN slot_vote_count})

RECURSIVE InsertByLanded(_, _)
\* vm goes before the first element whose landed_slot is smaller
InsertByLanded(sorted, vm) ==
    IF sorted = <<>> THEN <<vm>>
    ELSE IF Head(sorted).landed_slot < vm.landed_slot
         THEN <<vm>> \o sorted
         ELSE <<Head(sorted)>> \o InsertByLanded(Tail(sorted), vm)

RECURSIVE StableSortDescending(_, _)
StableSortDescending(metas, sorted) ==
    IF metas = <<>> THEN sorted
    ELSE StableSortDescending(Tail(metas), InsertByLanded(sorted, Head(metas)))

Unsorted(metas) == metas

\* line 204: vote_metas.sort_by(|a, b| b.landed_slot.cmp(&a.landed_slot)),
\* a stable sort
SortVoteMetas(metas) == StableSortDescending(metas, <<>>)

None == <<>>
Some(e) == <<e>>
is_some(cell) == cell # <<>>

EmptyRow(depths) == [d \in 1..depths |-> None]

CellKindGapAsWaiting(vm, slot) ==
    IF slot = vm.landed_slot THEN "Landed"
    ELSE IF slot \in Range(vm.vote_slots) THEN "Vote"
    ELSE IF slot < Last(vm.vote_slots) THEN "Waiting"
    ELSE IF slot < vm.landed_slot THEN "VoteGap"
    ELSE "Space"

\* lines 233-243
CellKind(vm, slot) ==
    IF slot = vm.landed_slot THEN "Landed"
    ELSE IF slot \in Range(vm.vote_slots) THEN "Vote"
    ELSE IF slot < Last(vm.vote_slots) THEN "VoteGap"
    ELSE IF slot < vm.landed_slot THEN "Waiting"
    ELSE "Space"

ScanFirstSlotOnly(tbl, slots, depth, depths) ==
    LET withRows == [s \in (DOMAIN tbl) \cup Range(slots) |->
                        IF s \in DOMAIN tbl THEN tbl[s] ELSE EmptyRow(depths)]
    IN [table |-> withRows,
        occupied |-> slots # <<>> /\ is_some(withRows[Head(slots)][depth + 1])]

RECURSIVE ScanDepth(_, _, _, _)
\* lines 218-226: the rows of the span at `depth` (0-based), in slot order;
\* entry().or_insert_with() creates the rows it reaches
ScanDepth(tbl, slots, depth, depths) ==
    IF slots = <<>> THEN [table |-> tbl, occupied |-> FALSE]
    ELSE LET slot == Head(slots)
             withRow == IF slot \in DOMAIN tbl THEN tbl
                        ELSE MapPut(tbl, slot, EmptyRow(depths))
         IN IF is_some(withRow[slot][depth + 1])
            THEN [table |-> withRow, occupied |-> TRUE]
            ELSE ScanDepth(withRow, Tail(slots), depth, depths)

\* lines 229-247
FillSpan(tbl, vm, depth) ==
    [s \in DOMAIN tbl |->
        IF s \in SpanSlots(vm)
        THEN [tbl[s] EXCEPT ![depth + 1] =
                 Some([kind |-> CellKind(vm, s), vote_meta |-> vm])]
        ELSE tbl[s]]

RECURSIVE PackFrom(_, _, _, _)
\* lines 214-251: the loop over depth
PackFrom(tbl, vm, depth, depths) ==
    IF ~(depth < depths)
    THEN [table |-> tbl, depth |-> depth, failed |-> TRUE]
    ELSE LET scan == ScanDepth(tbl, SortedSeq(SpanSlots(vm)), depth, depths)
         IN IF scan.occupied
            THEN PackFrom(scan.table, vm, depth + 1, depths)
            ELSE [table |-> FillSpan(scan.table, vm, depth), depth |-> depth,
                  failed |-> FALSE]

RowHasVote(row) ==
    \E d \in DOMAIN row : is_some(row[d]) /\ row[d][1].kind = "Vote"

\* lines 272-277
RowHasSuccessfulVote(row) ==
    \E d \in DOMAIN row :
        is_some(row[d]) /\ row[d][1].kind = "Vote" /\ row[d][1].vote_meta.success

MissIgnoringSuccess(slot, row, max_last) == slot < max_last /\ ~RowHasVote(row)

\* lines 271-277
Miss(slot, row, max_last) == slot < max_last /\ ~RowHasSuccessfulVote(row)

\* lines 283-291
StatusTag(confirmed, miss) ==
    IF confirmed THEN (IF miss THEN "MISS" ELSE "") ELSE "SKIP"

RECURSIVE ConfirmRows(_, _, _, _, _)
\* lines 269-298: for (slot, row_entries) in table
ConfirmRows(tbl, slots, confirmed_set, max_last, acc) ==
    IF slots = <<>> THEN acc
    ELSE LET slot == Head(slots)
             confirmed == slot \in confirmed_set
             miss == Miss(slot, tbl[slot], max_last)
         IN ConfirmRows(tbl, Tail(slots), confirmed_set, max_last,
                [lines |-> Append(acc.lines,
                                  [slot |-> slot, tag |-> StatusTag(confirmed, miss)]),
                 miss_count |-> acc.miss_count
                                + (IF confirmed /\ miss THEN 1 ELSE 0)])

TableStart(transactions, last_slot) ==
    /\ tpc = "extract"
    /\ limit = transactions
    /\ tip = last_slot
    /\ vote_metas = <<>>
    /\ slot_vote_count = EmptyMap
    /\ table = EmptyMap
    /\ next_meta = 1
    /\ placed = EmptyMap
    /\ max_last_vote_slot = 0
    /\ failed_vote_count = 0
    /\ confirmed_slots = {}
    /\ report = <<>>
    /\ miss_count = 0
    /\ LiveInit
    /\ RenderIdle

TableInit == TableStart(MaxMetasConfirmed, LastTableSlotConfirmed)

PackingInit == TableStart(MaxMetas, LastTableSlot)

\* lines 150-197: one vote transaction with a non-empty slot list.  The
\* signature is the position of the transaction in the list.  A vote lands
\* after the slots it votes on.
ExtractVoteMeta ==
    /\ tpc = "extract"
    /\ Len(vote_metas) < limit
    /\ \E slots \in MetaVoteSlotLists(tip), success \in BOOLEAN :
       \E landed \in {l \in TableSlots(tip) : l > Last(slots)} :
          LET vm == [signature |-> Len(vote_metas) + 1, success |-> success,
                     vote_slots |-> slots, landed_slot |-> landed]
          IN /\ vote_metas' = Append(vote_metas, vm)
             /\ slot_vote_count' = CountSpan(slot_vote_count, vm)
    /\ UNCHANGED <<tpc, limit, tip, table, next_meta, placed, max_last_vote_slot,
                   failed_vote_count, confirmed_slots, report, miss_count>>
    /\ UNCHANGED <<liveVars, renderVars>>

\* lines 199-205: the end of the transaction list
StartPacking ==
    /\ tpc = "extract"
    /\ IF DOMAIN slot_vote_count = {}
       THEN tpc' = "panic" /\ UNCHANGED vote_metas
       ELSE tpc' = "pack" /\ vote_metas' = SortVoteMetas(vote_metas)
    /\ UNCHANGED <<limit, tip, slot_vote_count, table, next_meta, placed,
                   max_last_vote_slot, failed_vote_count, confirmed_slots, report,
                   miss_count>>
    /\ UNCHANGED <<liveVars, renderVars>>

\* lines 206-252: one iteration of `for vote_meta in vote_metas`
PlaceVoteMeta ==
    /\ tpc = "pack"
    /\ next_meta <= Len(vote_metas)
    /\ LET vm == vote_metas[next_meta]
           packed == PackFrom(table, vm, 0, slot_vote_max_depth)
       IN /\ max_last_vote_slot' =
                 IF Last(vm.vote_slots) > max_last_vote_slot
                 THEN Last(vm.vote_slots) ELSE max_last_vote_slot
          /\ failed_vote_count' = failed_vote_count + (IF vm.success THEN 0 ELSE 1)
          /\ table' = packed.table
          /\ IF packed.failed
             THEN tpc' = "assert_failed" /\ UNCHANGED <<placed, next_meta>>
             ELSE /\ tpc' = "pack"
                  /\ placed' = MapPut(placed, vm.signature, packed.depth)
                  /\ next_meta' = next_meta + 1
    /\ UNCHANGED <<limit, tip, vote_metas, slot_vote_count, confirmed_slots, report,
                   miss_count>>
    /\ UNCHANGED <<liveVars, renderVars>>

RemoveEndWithoutFill(tbl) == MapRemove(tbl, Max(DOMAIN tbl))

\* lines 254-263
RemoveEndAndFill(tbl) ==
    LET cut == MapRemove(tbl, Max(DOMAIN tbl))
        start_slot == Min(DOMAIN cut)
        end_slot == Max(DOMAIN cut)
    IN [s \in (DOMAIN cut) \cup (start_slot..(end_slot - 1)) |->
           IF s \in DOMAIN cut THEN cut[s] ELSE <<>>]

\* lines 254-264: post-processing and the answer of get_blocks
PostProcess ==
    /\ tpc = "pack"
    /\ next_meta > Len(vote_metas)
    /\ IF DOMAIN table = {} \/ Cardinality(DOMAIN table) = 1
       THEN /\ tpc' = "panic"
            /\ table' = IF DOMAIN table = {} THEN table
                        ELSE MapRemove(table, Max(DOMAIN table))
            /\ UNCHANGED confirmed_slots
       ELSE /\ tpc' = "confirm"
            /\ table' = RemoveEndAndFill(table)
            /\ confirmed_slots' \in SUBSET (DOMAIN table')
    /\ UNCHANGED <<limit, tip, vote_metas, slot_vote_count, next_meta, placed,
                   max_last_vote_slot, failed_vote_count, report, miss_count>>
    /\ UNCHANGED <<liveVars, renderVars>>

\* lines 266-312: the confirmation pass and the summary
ConfirmationPass ==
    /\ tpc = "confirm"
    /\ LET out == ConfirmRows(table, SortedSeq(DOMAIN table), confirmed_slots,
                              max_last_vote_slot,
                              [lines |-> <<>>, miss_count |-> 0])
       IN /\ report' = out.lines
          /\ miss_count' = out.miss_count
    /\ tpc' = "done"
    /\ UNCHANGED <<limit, tip, vote_metas, slot_vote_count, table, next_meta, placed,
                   max_last_vote_slot, failed_vote_count, confirmed_slots>>
    /\ UNCHANGED <<liveVars, renderVars>>

\* lines 300-306: the number of slots the summary reports
ReportedSlotCount(tbl) == Max(DOMAIN tbl) - Min(DOMAIN tbl) + 1

TableNext == ExtractVoteMeta \/ StartPacking \/ PlaceVoteMeta \/ PostProcess
             \/ ConfirmationPass

SpecTable == TableInit /\ [][TableNext]_vars

\* The extraction and the packing loop alone (lines 147-252).
PackingNext == ExtractVoteMeta \/ StartPacking \/ PlaceVoteMeta

SpecPacking == PackingInit /\ [][PackingNext]_vars

----------------------------------------------------------------------------
(* vv.rs, impl fmt::Display for TableEntry.  A string is the sequence of   *)
(* its characters.                                                         *)

\* A signature's base58 text is modelled by SignatureLen characters.
SignatureLen == 5
SignatureChars == {"a", "b"}

Kinds == {"Space", "Vote", "VoteGap", "Waiting", "Landed"}

Blank == " "

\* line 82: "         "
SpaceGlyph == <<Blank, Blank, Blank, Blank, Blank, Blank, Blank, Blank, Blank>>
\* line 86: "   xx    "
VoteGapGlyph == <<Blank, Blank, Blank, "x", "x", Blank, Blank, Blank, Blank>>
\* line 89: "   ^^    "
WaitingGlyph == <<Blank, Blank, Blank, "^", "^", Blank, Blank, Blank, Blank>>

\* line 93
SuccessMarker(e) == IF e.success THEN Blank ELSE "!"

\* lines 80-92
Sign(e) == IF e.kind = "Vote" THEN "+" ELSE "="

DisplayRepeatingSignature(e) ==
    IF e.kind = "Space" THEN SpaceGlyph
    ELSE IF e.kind = "VoteGap" THEN VoteGapGlyph
    ELSE IF e.kind = "Waiting" THEN WaitingGlyph
    ELSE <<Sign(e), SuccessMarker(e)>> \o SubSeq(e.signature, 1, 4)
         \o <<".", ".">> \o SubSeq(e.signature, 1, 4)

\* lines 78-96; line 95 is write!(f, "{0}{1}{2}..{1}", sign, success, &signature[0..4])
Display(e) ==
    IF e.kind = "Space" THEN SpaceGlyph
    ELSE IF e.kind = "VoteGap" THEN VoteGapGlyph
    ELSE IF e.kind = "Waiting" THEN WaitingGlyph
    ELSE <<Sign(e), SuccessMarker(e)>> \o SubSeq(e.signature, 1, 4)
         \o <<".", ".">> \o <<SuccessMarker(e)>>

RenderInit ==
    /\ entry \in [kind : Kinds, success : BOOLEAN,
                  signature : [1..SignatureLen -> SignatureChars]]
    /\ rendered = <<>>
    /\ LiveInit
    /\ TableIdle

\* format!("{}", entry)
Render ==
    /\ rendered = <<>>
    /\ rendered' = Display(entry)
    /\ UNCHANGED entry
    /\ UNCHANGED <<liveVars, tableVars>>

SpecRender == RenderInit /\ [][Render]_vars

----------------------------------------------------------------------------
(* Claims about the live loop.                                             *)

PassEvents == {last_pass.events[i] : i \in DOMAIN last_pass.events}

Buffered(pubkey, slots) ==
    /\ Last(slots) \in DOMAIN votes_by_slot
    /\ \E j \in DOMAIN votes_by_slot[Last(slots)] :
          votes_by_slot[Last(slots)][j] = [pubkey |-> pubkey, slots |-> slots]

\* C1: when the loop waits again after a maintenance pass that skipped a
\* buffered vote (the tower's lowest lockout slot, or the vote's own lowest
\* slot, is not a key of slot_parents), the vote is still buffered under its
\* bucket key, unless that key is below the lowest ancestry slot.
C1_SkippedVoteStaysBuffered ==
    \A e \in PassEvents :
        e.outcome \in {"skip_tower", "skip_vote"} =>
            \/ Last(e.slots) < Min(DOMAIN slot_parents)
            \/ Buffered(e.pubkey, e.slots)

\* C2: whenever the pass calls is_locked_out for a vote (and so whenever it
\* applies one), the vote's highest slot is a child key of slot_parents.
C2_TargetIsAncestryKey ==
    \A e \in PassEvents :
        e.outcome \in {"applied", "locked_out"} =>
            Last(e.slots) \in DOMAIN slot_parents

\* C3: whenever the loop waits for its next notification, slot_parents holds
\* no more entries than the cap.
C3_AncestryWithinCap == Cardinality(DOMAIN slot_parents) <= SLOT_PARENTS_CAP

\* C3 witness: more distinct child slots than the cap were inserted and the
\* eviction loop has removed entries.
C3_Witness ==
    /\ Cardinality(inserted) > SLOT_PARENTS_CAP - 1
    /\ last_event.kind = "slot"
    /\ DOMAIN slot_parents # inserted
    /\ Cardinality(DOMAIN slot_parents) = SLOT_PARENTS_CAP - 1

\* C4: after N+k edges with pairwise distinct child slots were inserted
\* (N the cap, k >= 0) and eviction ran, exactly the k lowest child slots are
\* absent and the N others are present.
C4_ExactlyKLowestEvicted ==
    LET k == Cardinality(inserted) - SLOT_PARENTS_CAP
        absent == inserted \ DOMAIN slot_parents
    IN (~reinserted /\ k >= 0) =>
          /\ Cardinality(absent) = k
          /\ \A a \in absent : \A s \in DOMAIN slot_parents : a < s
          /\ DOMAIN slot_parents \subseteq inserted

\* C10: a vote whose highest slot is <= the last-voted slot its validator's
\* tower has when the vote is processed is rejected: is_locked_out and the
\* apply are not run for it and the tower is left as it was.
C10_StaleVoteRejected ==
    \A e \in PassEvents :
        (HasLastVotedSlot(e.before) /\ Last(e.slots) <= last_voted_slot(e.before)) =>
            /\ e.outcome \in {"stale", "skip_tower", "skip_vote"}
            /\ e.after = e.before

\* C10 witness: a vote passed both skip checks and is_recent rejected it,
\* with the tower in vote_states being the one the vote met.
C10_Witness ==
    \E e \in PassEvents :
        /\ e.outcome = "stale"
        /\ Last(e.slots) <= last_voted_slot(e.before)
        /\ vote_states[e.pubkey] = e.before

\* The towers the loop holds or has handed to is_recent in the last pass.
KnownTowers ==
    {vote_states[id] : id \in DOMAIN vote_states}
        \cup {e.before : e \in PassEvents} \cup {<<>>}

\* C11: for every tower and every slot s, is_recent is false exactly when the
\* tower has a last-voted slot and that slot is >= s; for a tower without a
\* recorded vote it is true for every s.
C11_IsRecentIffBeyondLastVote ==
    \A tower \in KnownTowers : \A s \in 0..(MaxSlot + 1) :
        /\ (~is_recent(tower, s)) <=> (tower # <<>> /\ tower[Len(tower)].slot >= s)
        /\ (tower = <<>>) => is_recent(tower, s)

C11_Witness ==
    \E id \in DOMAIN vote_states :
        LET tower == vote_states[id]
        IN /\ tower # <<>>
           /\ tower[Len(tower)].slot = 2
           /\ ~is_recent(tower, 1) /\ ~is_recent(tower, 2) /\ is_recent(tower, 3)

\* The lockout conflict of a tower with a vote on `target`: after the vote is
\* simulated, the tower holds a slot other than target outside `ancestors`.
LockoutConflict(tower, target, ancestors) ==
    \E s \in TowerSlots(process_slot_vote_unchecked(tower, target)) \ {target} :
        s \notin ancestors

\* C12: a vote is applied only after is_locked_out returned false for its
\* tower, its target slot and the ancestors of the target; when is_locked_out
\* returns true the session aborts at once: the tower is not changed by that
\* vote and no later buffered vote is processed.
C12_AppliedOnlyWhenNotLockedOut ==
    /\ \A i \in DOMAIN last_pass.events :
          LET e == last_pass.events[i]
              target == Last(e.slots)
          IN /\ e.outcome = "applied" =>
                   /\ e.ancestors = build_ancestors(target, slot_parents)
                   /\ ~LockoutConflict(e.before, target, e.ancestors)
             /\ e.outcome = "locked_out" =>
                   /\ e.ancestors = build_ancestors(target, slot_parents)
                   /\ LockoutConflict(e.before, target, e.ancestors)
                   /\ i = Len(last_pass.events)
                   /\ e.after = e.before
                   /\ vote_states[e.pubkey] = e.before
                   /\ status = "locked_out"
    /\ status = "locked_out" =>
          /\ last_pass.events # <<>>
          /\ Last(last_pass.events).outcome = "locked_out"
          /\ ~ENABLED Next

C12_Witness ==
    /\ status = "locked_out"
    /\ n_votes_seen = MaxVoteNotifications
    /\ Len(last_pass.events) = 2
    /\ last_pass.events[1].outcome = "applied"
    /\ last_pass.events[2].outcome = "locked_out"
    /\ last_pass.events[2].before # <<>>

RECURSIVE ParentClosure(_, _)
\* The least set that holds S and the parent of each of its members.
ParentClosure(S, parents) ==
    LET next == S \cup {parents[x] : x \in S \cap DOMAIN parents}
    IN IF next = S THEN S ELSE ParentClosure(next, parents)

\* The slots reached from s by one or more parent links.
ReachableByParentLinks(s, parents) ==
    IF s \in DOMAIN parents THEN ParentClosure({parents[s]}, parents) ELSE {}

\* C13: for the ancestry the loop holds and any slot s, build_ancestors
\* returns exactly the slots reachable from s by one or more parent links,
\* and s is not one of them.
C13_AncestorsAreReachableSet ==
    /\ \A s \in 0..MaxSlot :
          /\ build_ancestors(s, slot_parents) = ReachableByParentLinks(s, slot_parents)
          /\ s \notin build_ancestors(s, slot_parents)
    /\ \A e \in PassEvents :
          e.outcome \in {"applied", "locked_out"} =>
              e.ancestors = ReachableByParentLinks(Last(e.slots), slot_parents)

C13_Witness ==
    /\ \E s \in Slots : Cardinality(build_ancestors(s, slot_parents)) = 2
    /\ \E e \in PassEvents : e.outcome = "applied" /\ Cardinality(e.ancestors) = 2

\* C14: a vote notification whose identity or hash cannot be parsed ends the
\* session with a hard failure, whatever its slot list (an empty one included).
C14_UnparsableVoteIsFatal ==
    (last_event.kind = "vote" /\ ~last_event.parsable) => status = "parse_error"

\* C15: without a fatal failure the loop ends exactly when both streams are
\* exhausted: while one stream still delivers, its notifications are handled
\* (each followed by the maintenance pass, whose body runs when the ancestry
\* is not empty) and the loop cannot end; once both are exhausted no
\* notification is handled any more, the break is the step left, and after
\* it both subscriptions are released.
C15_StateOfTheLoop ==
    /\ (status = "ended") <=> unsubscribed
    /\ status = "ended" => (votes_ended /\ slots_ended)
    /\ status = "running" => (ENABLED Break <=> (votes_ended /\ slots_ended))
    /\ (last_event.kind \in {"vote", "slot"} /\ status = "running") =>
          (last_pass.ran <=> DOMAIN slot_parents # {})

C15_StepOfTheLoop ==
    /\ last_event'.kind = "vote" => (status = "running" /\ ~votes_ended)
    /\ last_event'.kind = "slot" => (status = "running" /\ ~slots_ended)
    /\ last_event'.kind = "break" =>
          (status = "running" /\ votes_ended /\ slots_ended /\ unsubscribed')

C15_LoopEndsIffBothExhausted == [](C15_StateOfTheLoop) /\ [][C15_StepOfTheLoop]_vars

\* A slot notification is handled, and its pass evaluates a buffered vote,
\* after the vote stream has ended.
C15_Witness ==
    /\ status = "running"
    /\ votes_ended /\ ~slots_ended
    /\ last_event.kind = "slot"
    /\ last_pass.ran
    /\ \E e \in PassEvents : e.outcome = "applied"

IsPrefix(a, b) == Len(a) <= Len(b) /\ SubSeq(b, 1, Len(a)) = a

\* The votes the events of a pass record for bucket k, in event order.
EventVotes(events, k) ==
    LET of_k == SelectSeq(events, LAMBDA e : Last(e.slots) = k)
    IN [i \in DOMAIN of_k |-> [pubkey |-> of_k[i].pubkey, slots |-> of_k[i].slots]]

\* C17: in each pass the bucket keys <= the highest ancestry slot H are
\* processed in strictly ascending slot order, the entries of one bucket in
\* arrival order (the order of the bucket before the step, a vote that
\* arrives in the step last); buckets with key > H are not touched.
C17_PassStep ==
    last_pass'.ran =>
        LET order == last_pass'.order
            events == last_pass'.events
            H == Max(DOMAIN slot_parents')
            lowest == Min(DOMAIN slot_parents')
        IN /\ \A i, j \in DOMAIN order : i < j => order[i] < order[j]
           /\ \A i \in DOMAIN order : order[i] <= H
           /\ \A i, j \in DOMAIN events :
                 i < j => Last(events[i].slots) <= Last(events[j].slots)
           /\ \A i \in DOMAIN events : Last(events[i].slots) \in Range(order)
           /\ \A k \in DOMAIN votes_by_slot :
                 /\ (lowest <= k /\ k <= H /\ status' = "running") =>
                       /\ k \in Range(order)
                       /\ IsPrefix(votes_by_slot[k], EventVotes(events, k))
                 /\ k \in Range(order) =>
                       /\ Len(EventVotes(events, k)) <= Len(votes_by_slot[k]) + 1
                       /\ \/ IsPrefix(votes_by_slot[k], EventVotes(events, k))
                          \/ IsPrefix(EventVotes(events, k), votes_by_slot[k])
                 /\ k > H =>
                       /\ k \notin Range(order)
                       /\ k \in DOMAIN votes_by_slot'
                       /\ IsPrefix(votes_by_slot[k], votes_by_slot'[k])
                       /\ Len(votes_by_slot'[k]) <= Len(votes_by_slot[k]) + 1

C17_AscendingSlotsArrivalOrder == [][C17_PassStep]_vars

\* C17 witness: a pass has processed two buckets, one of them with two votes,
\* the votes of two identities among them.
C17_Witness ==
    /\ last_pass.ran
    /\ Len(last_pass.order) = 2
    /\ Len(last_pass.events) = 3
    /\ \E i \in 1..2 :
          /\ Last(last_pass.events[i].slots) = Last(last_pass.events[i + 1].slots)
          /\ last_pass.events[i].pubkey # last_pass.events[i + 1].pubkey

\* C19: for every sequence of slot notifications (a parent is a lower slot
\* than its child; any arrival order, the same child again with the same or
\* another parent) and of vote notifications, each maintenance pass ends: the
\* eviction loop stops with a non-empty ancestry below the cap, the walk over
\* parent links ends from every slot, so for every vote the pass evaluated,
\* and the loop waits again unless the pass aborted on a lockout.
C19_PassTerminates ==
    /\ \A s \in 0..MaxSlot : build_ancestors_terminates(s, slot_parents)
    /\ \A e \in PassEvents :
          e.outcome \in {"applied", "locked_out"} =>
              /\ build_ancestors_terminates(Last(e.slots), slot_parents)
              /\ Cardinality(e.ancestors) <= Cardinality(DOMAIN slot_parents)
    /\ last_pass.ran =>
          /\ DOMAIN slot_parents # {}
          /\ Cardinality(DOMAIN slot_parents) < SLOT_PARENTS_CAP
          /\ status \in {"running", "locked_out"}
          /\ (status = "locked_out") <=>
                (\E e \in PassEvents : e.outcome = "locked_out")

\* C19 witness: slots have arrived out of order and one of them twice, the
\* eviction loop has removed an entry, and the pass has walked two parent
\* links for a vote it evaluated.
C19_Witness ==
    /\ last_pass.ran /\ status = "running"
    /\ reinserted
    /\ Cardinality(inserted) > Cardinality(DOMAIN slot_parents)
    /\ \E e \in PassEvents : e.outcome = "applied" /\ Cardinality(e.ancestors) = 2

TowerOf(states, id) == IF id \in DOMAIN states THEN states[id] ELSE <<>>

\* C20: the tower of an identity changes only in a step that applies an
\* accepted vote of that identity (both skip checks passed, is_recent true,
\* no lockout conflict): the events of the identity in the pass of the step
\* lead from its tower before the step to its tower after it, and only the
\* applied ones change it.
C20_TowerStep ==
    \A id \in Identities :
        LET evs == SelectSeq(last_pass'.events, LAMBDA e : e.pubkey = id)
            before == TowerOf(vote_states, id)
            after == TowerOf(vote_states', id)
        IN /\ after # before => \E i \in DOMAIN evs : evs[i].outcome = "applied"
           /\ evs = <<>> => after = before
           /\ evs # <<>> => (evs[1].before = before /\ evs[Len(evs)].after = after)
           /\ \A i \in DOMAIN evs :
                 /\ i < Len(evs) => evs[i + 1].before = evs[i].after
                 /\ evs[i].outcome # "applied" => evs[i].after = evs[i].before
                 /\ evs[i].outcome = "applied" =>
                       /\ evs[i].before # <<>> =>
                             Min(TowerSlots(evs[i].before)) \in DOMAIN slot_parents'
                       /\ evs[i].slots[1] \in DOMAIN slot_parents'
                       /\ is_recent(evs[i].before, Last(evs[i].slots))
                       /\ ~LockoutConflict(evs[i].before, Last(evs[i].slots),
                                           evs[i].ancestors)
                       /\ evs[i].after =
                             process_vote_unchecked(evs[i].before, evs[i].slots)

C20_TowerChangesOnlyByAcceptedVote == [][C20_TowerStep]_vars

\* C20 witness: in one pass a vote of one identity was applied and a vote of
\* another identity, whose tower holds a vote, was skipped or found stale.
C20_Witness ==
    \E e1, e2 \in PassEvents :
        /\ e1.outcome = "applied"
        /\ e2.outcome \in {"skip_tower", "skip_vote", "stale"}
        /\ e1.pubkey # e2.pubkey
        /\ e2.before # <<>>
        /\ vote_states[e2.pubkey] = e2.before

RECURSIVE TrueAncestors(_)
\* The ancestors of a slot in the chain without forks.
TrueAncestors(slot) ==
    IF slot = 0 THEN {}
    ELSE {TrueParent(slot)} \cup TrueAncestors(TrueParent(slot))

\* C21: when every slot of a validator's tower is a true ancestor of the
\* target of its vote, the loop does not abort on a lockout for that vote,
\* whatever the arrival order of the slot and vote notifications.
C21_NoLockoutAbortOnOneFork ==
    \A e \in PassEvents :
        e.outcome = "locked_out" =>
            \E s \in TowerSlots(e.before) : s \notin TrueAncestors(Last(e.slots))

\* C22: after every completed maintenance pass every bucket still buffered
\* has a key above the highest ancestry slot: the buckets keyed below the
\* lowest ancestry slot have been dropped, and the buckets keyed from the
\* lowest to the highest ancestry slot have been taken out of the buffer,
\* whatever happened to their votes.
C22_AfterPass ==
    (last_pass.ran /\ status = "running") =>
        LET H == Max(DOMAIN slot_parents)
            lowest == Min(DOMAIN slot_parents)
        IN /\ \A k \in DOMAIN votes_by_slot : k > H
           /\ \A k \in last_pass.dropped : k < lowest
           /\ \A k \in Range(last_pass.order) : lowest <= k /\ k <= H

C22_PassStep ==
    (last_pass'.ran /\ status' = "running") =>
        LET H == Max(DOMAIN slot_parents')
            lowest == Min(DOMAIN slot_parents')
        IN \A k \in DOMAIN votes_by_slot :
              /\ k < lowest =>
                    (k \in last_pass'.dropped /\ k \notin Range(last_pass'.order))
              /\ (lowest <= k /\ k <= H) =>
                    (k \in Range(last_pass'.order) /\ k \notin last_pass'.dropped)
              /\ k <= H => k \notin DOMAIN votes_by_slot'

C22_RemainingBucketsAboveHighest == [](C22_AfterPass) /\ [][C22_PassStep]_vars

\* C22 witness: one pass has dropped a bucket below the lowest ancestry slot,
\* processed a bucket whose vote it skipped, and left a bucket above the
\* highest ancestry slot buffered.
C22_Witness ==
    /\ last_pass.ran /\ status = "running"
    /\ last_pass.dropped # {}
    /\ \E e \in PassEvents : e.outcome \in {"skip_tower", "skip_vote"}
    /\ DOMAIN votes_by_slot # {}
    /\ \A k \in DOMAIN votes_by_slot : k > Max(DOMAIN slot_parents)

----------------------------------------------------------------------------
(* Claims about the landing table and the rendering.                       *)

PlacedMetas == {vote_metas[i] : i \in {j \in DOMAIN vote_metas : j < next_meta}}

IsScenarioA(vm) ==
    vm.success /\ vm.vote_slots = <<10, 11>> /\ vm.landed_slot = 12

IsScenarioB(vm) ==
    vm.success /\ vm.vote_slots = <<11, 12>> /\ vm.landed_slot = 13

\* The input is A and B, in either order, and both have been placed.
ScenarioPacked ==
    /\ tpc = "pack"
    /\ Len(vote_metas) = 2
    /\ next_meta = 3
    /\ \E a, b \in Range(vote_metas) : IsScenarioA(a) /\ IsScenarioB(b)

\* The cell of slot 11, which both spans cover, at a 0-based depth.
OwnerAt11(depth) == table[11][depth + 1][1].vote_meta

\* C5 as stated: for the input A{success, [10,11], landed 12} and
\* B{success, [11,12], landed 13} the builder places A at depth 0 and B at
\* depth 1.
C5_AAtDepth0BAtDepth1 ==
    ScenarioPacked =>
        \A a, b \in Range(vote_metas) :
            (IsScenarioA(a) /\ IsScenarioB(b)) =>
                /\ placed[a.signature] = 0 /\ placed[b.signature] = 1
                /\ OwnerAt11(0) = a /\ OwnerAt11(1) = b

\* C5 amended: for that input the builder, which takes the VoteMeta in
\* descending landed_slot order, places B at depth 0 and A at depth 1.
C5_BAtDepth0AAtDepth1 ==
    ScenarioPacked =>
        \A a, b \in Range(vote_metas) :
            (IsScenarioA(a) /\ IsScenarioB(b)) =>
                /\ placed[b.signature] = 0 /\ placed[a.signature] = 1
                /\ OwnerAt11(0) = b /\ OwnerAt11(1) = a

\* C5 witness: the scenario was packed with A given first.
C5_Witness ==
    /\ ScenarioPacked
    /\ \E a \in Range(vote_metas) : IsScenarioA(a) /\ a.signature = 1
    /\ DOMAIN placed = {1, 2}

\* The greatest number of spans [first_vote_slot, landed_slot + 1] of the
\* input that cover one slot, counted from the VoteMeta themselves.
MaxOverlap ==
    LET covering(s) == {i \in DOMAIN vote_metas : s \in SpanSlots(vote_metas[i])}
        covered == UNION {SpanSlots(vote_metas[i]) : i \in DOMAIN vote_metas}
    IN Max({Cardinality(covering(s)) : s \in covered})

\* C6: the assertion depth < D of the packing loop never fails, and every
\* VoteMeta is placed at a depth below the greatest number of spans that
\* cover one slot.
C6_PackingWithinMaxDepth ==
    /\ tpc # "assert_failed"
    /\ tpc \in {"pack", "confirm", "done"} =>
          \A sig \in DOMAIN placed : placed[sig] < MaxOverlap

\* C6 witness: three VoteMeta were packed into exactly two depths, the
\* greatest overlap of the input, so one depth was used again.
C6_Witness ==
    /\ tpc = "pack"
    /\ next_meta = 4
    /\ MaxOverlap = 2
    /\ {placed[sig] : sig \in DOMAIN placed} = {0, 1}

CellOwner(s, d) == table[s][d][1].vote_meta

\* C7: while the packing loop runs, every placed VoteMeta holds the cell of
\* its depth in every slot of its range and no other cell, and two placed
\* VoteMeta whose ranges share a slot are at different depths.
C7_OneDepthNoSharing ==
    tpc = "pack" =>
        /\ DOMAIN placed = {vm.signature : vm \in PlacedMetas}
        /\ \A vm \in PlacedMetas :
              \A s \in SpanSlots(vm) :
                  /\ s \in DOMAIN table
                  /\ is_some(table[s][placed[vm.signature] + 1])
                  /\ CellOwner(s, placed[vm.signature] + 1) = vm
        /\ \A s \in DOMAIN table : \A d \in DOMAIN table[s] :
              is_some(table[s][d]) =>
                  /\ Len(table[s][d]) = 1
                  /\ CellOwner(s, d) \in PlacedMetas
                  /\ s \in SpanSlots(CellOwner(s, d))
                  /\ d = placed[CellOwner(s, d).signature] + 1
        /\ \A v, w \in PlacedMetas :
              (v # w /\ SpanSlots(v) \cap SpanSlots(w) # {}) =>
                  placed[v.signature] # placed[w.signature]

\* C7 witness: three VoteMeta are placed, two with overlapping ranges at
\* different depths and two with disjoint ranges at the same depth.
C7_Witness ==
    /\ tpc = "pack"
    /\ next_meta = 4
    /\ \E v, w \in PlacedMetas :
          /\ SpanSlots(v) \cap SpanSlots(w) # {}
          /\ placed[v.signature] # placed[w.signature]
    /\ \E v, w \in PlacedMetas :
          /\ v # w
          /\ SpanSlots(v) \cap SpanSlots(w) = {}
          /\ placed[v.signature] = placed[w.signature]

ReportLines == {report[i] : i \in DOMAIN report}

MaxLastVoteSlot == Max({Last(vote_metas[i].vote_slots) : i \in DOMAIN vote_metas})

ShouldBeMiss(s) ==
    /\ s \in confirmed_slots
    /\ s < MaxLastVoteSlot
    /\ ~\E d \in DOMAIN table[s] :
           /\ table[s][d] # <<>>
           /\ table[s][d][1].kind = "Vote"
           /\ table[s][d][1].vote_meta.success

\* C8: after the confirmation pass there is one line per table slot; a slot
\* is reported MISS exactly when it is confirmed, below the maximum
\* last-vote slot of all VoteMeta, and has no successful Vote cell; a slot
\* that is not confirmed is reported SKIP; and the miss count is the number
\* of MISS lines.
C8_MissAndSkip ==
    tpc = "done" =>
        /\ {l.slot : l \in ReportLines} = DOMAIN table
        /\ Len(report) = Cardinality(DOMAIN table)
        /\ \A l \in ReportLines :
              /\ (l.tag = "MISS") <=> ShouldBeMiss(l.slot)
              /\ (l.slot \notin confirmed_slots) => l.tag = "SKIP"
        /\ miss_count = Cardinality({i \in DOMAIN report : report[i].tag = "MISS"})

\* C8 witness: a confirmed slot without a successful Vote cell is reported
\* MISS, and an unconfirmed slot that also lies below the maximum last-vote
\* slot without a successful Vote cell is reported SKIP.
C8_Witness ==
    /\ tpc = "done"
    /\ miss_count >= 1
    /\ \E l \in ReportLines : l.tag = "MISS" /\ RowHasVote(table[l.slot])
    /\ \E l \in ReportLines :
          /\ l.tag = "SKIP"
          /\ l.slot < max_last_vote_slot
          /\ ~RowHasSuccessfulVote(table[l.slot])

\* The kind the classification gives slot s of the range of vm.
ClassifiedKind(vm, s) ==
    LET voted == {vm.vote_slots[i] : i \in DOMAIN vm.vote_slots}
        last_vote_slot == vm.vote_slots[Len(vm.vote_slots)]
    IN CASE s = vm.landed_slot -> "Landed"
         [] s # vm.landed_slot /\ s \in voted -> "Vote"
         [] s # vm.landed_slot /\ s \notin voted /\ s < last_vote_slot -> "VoteGap"
         [] s \notin voted /\ last_vote_slot <= s /\ s < vm.landed_slot -> "Waiting"
         [] OTHER -> "Space"

KindAt(vm, s) == table[s][placed[vm.signature] + 1][1].kind

\* C16: for every placed VoteMeta and every slot s of its range the cell is
\* Landed if s is the landed slot; else Vote if s is a voted slot; else
\* VoteGap if s is below the last voted slot; else Waiting if s is below the
\* landed slot; else Space.  In particular every s strictly between the last
\* voted slot and the landed slot is Waiting, and landed_slot + 1 is Space
\* when it is not a voted slot.
C16_CellKindFollowsClassification ==
    tpc = "pack" =>
        \A vm \in PlacedMetas :
            LET last_vote_slot == vm.vote_slots[Len(vm.vote_slots)]
            IN \A s \in (vm.vote_slots[1])..(vm.landed_slot + 1) :
                  /\ is_some(table[s][placed[vm.signature] + 1])
                  /\ KindAt(vm, s) = ClassifiedKind(vm, s)
                  /\ (last_vote_slot < s /\ s < vm.landed_slot) =>
                        KindAt(vm, s) = "Waiting"
                  /\ (s = vm.landed_slot + 1 /\ s \notin Range(vm.vote_slots)) =>
                        KindAt(vm, s) = "Space"

\* C16 witness: a placed VoteMeta that voted on 10 and 12 and landed in 14
\* has a cell of each of the five kinds.
C16_Witness ==
    /\ tpc = "pack"
    /\ \E vm \in PlacedMetas :
          /\ vm.vote_slots = <<10, 12>> /\ vm.landed_slot = 14
          /\ KindAt(vm, 10) = "Vote" /\ KindAt(vm, 11) = "VoteGap"
          /\ KindAt(vm, 13) = "Waiting" /\ KindAt(vm, 14) = "Landed"
          /\ KindAt(vm, 15) = "Space"

AllMetas == {vote_metas[i] : i \in DOMAIN vote_metas}

CoveredSlots == UNION {(vm.vote_slots[1])..(vm.landed_slot + 1) : vm \in AllMetas}

\* C18: after post-processing the single highest-keyed row (the slot after
\* the highest landed slot) is gone and the keys of the table are every
\* integer from the lowest to the highest remaining key; a row added by the
\* fill holds no cell other than Space cells, the rows of the packing keep
\* their cells, and the number of rows is the end_slot - start_slot + 1 that
\* the summary reports.
C18_ContiguousRowsAfterPostProcessing ==
    tpc \in {"confirm", "done"} =>
        LET first == Min({vm.vote_slots[1] : vm \in AllMetas})
            landed == Max({vm.landed_slot : vm \in AllMetas})
        IN /\ (landed + 1) \notin DOMAIN table
           /\ DOMAIN table = first..landed
           /\ \A s \in DOMAIN table :
                 IF s \in CoveredSlots
                 THEN /\ Len(table[s]) = slot_vote_max_depth
                      /\ \E d \in DOMAIN table[s] : is_some(table[s][d])
                 ELSE \A d \in DOMAIN table[s] :
                         is_some(table[s][d]) => table[s][d][1].kind = "Space"
           /\ Cardinality(DOMAIN table) = ReportedSlotCount(table)
           /\ tpc = "done" => Len(report) = ReportedSlotCount(table)

\* C18 witness: two ranges with a slot between them; the fill has added the
\* row of that slot.
C18_Witness ==
    /\ tpc = "done"
    /\ \E s \in DOMAIN table :
          /\ s \notin CoveredSlots
          /\ table[s] = <<>>
          /\ (s - 1) \in CoveredSlots /\ (s + 1) \in CoveredSlots

SignatureHead == SubSeq(entry.signature, 1, 4)


FixedGlyphs ==
    /\ entry.kind = "Space" => rendered = SpaceGlyph
    /\ entry.kind = "VoteGap" => rendered = VoteGapGlyph
    /\ entry.kind = "Waiting" => rendered = WaitingGlyph

\* C9 as stated: a rendered Vote or Landed entry is the sign, the success
\* marker, the first 4 characters of the signature, "..", and the same 4
\* signature characters again; Space, VoteGap and Waiting are the fixed
\* glyphs.
C9_GlyphRepeatsSignature ==
    rendered # <<>> =>
        /\ FixedGlyphs
        /\ entry.kind \in {"Vote", "Landed"} =>
              rendered = <<IF entry.kind = "Vote" THEN "+" ELSE "=",
                           IF entry.success THEN " " ELSE "!">>
                         \o SignatureHead \o <<".", ".">> \o SignatureHead

\* C9 amended: a rendered Vote or Landed entry is the sign, the success
\* marker, the first 4 characters of the signature, "..", and the success
\* marker again, 9 characters like the fixed glyphs of Space, VoteGap and
\* Waiting.
C9_GlyphRepeatsSuccessMarker ==
    rendered # <<>> =>
        /\ FixedGlyphs
        /\ Len(rendered) = 9
        /\ entry.kind \in {"Vote", "Landed"} =>
              rendered = <<IF entry.kind = "Vote" THEN "+" ELSE "=",
                           IF entry.success THEN " " ELSE "!">>
                         \o SignatureHead \o <<".", ".">>
                         \o <<IF entry.success THEN " " ELSE "!">>

\* C9 witness: a failed Vote entry has been rendered.
C9_Witness ==
    /\ entry.kind = "Vote"
    /\ ~entry.success
    /\ rendered # <<>>
    /\ rendered[1] = "+"
    /\ rendered[9] = "!"

====
